---- MODULE Spec2Model ----
(***************************************************************************)
(* davidfig/spatialHash: a uniform-grid spatial hash for 2D AABBs.         *)
(*                                                                         *)
(* src/spatialhash.js holds two definitions of class SpatialHash:          *)
(*   variant 1 (lines 32-265): cell-index keys "x y", membership record    *)
(*       object.spatial = {hashes, xStart, yStart, xEnd, yEnd};            *)
(*   variant 2 (lines 299-441): cell-origin keys made by _key, membership  *)
(*       record object.spatialHashes = [{key, index}].                     *)
(* Both are modelled; the variable variant says which class was built.     *)
(*                                                                         *)
(* JavaScript values are encoded so that every comparison is well typed:   *)
(*   undefined / a present value v   ->  None / Some(v)                    *)
(*   a bucket this.list[key]         ->  [isNull, items]                   *)
(*   a key string a + ' ' + b        ->  the pair <<a, b>> (the decimal    *)
(*       rendering of two integers joined by one space is injective)       *)
(***************************************************************************)
EXTENDS Integers, Sequences, FiniteSets, TLC

\* ---------------------------------------------------------------- bounds
NumObjects == 2
MaxX == 1
MaxY == 0
MaxWidth == 2
MaxHeight == 2
\* no bucket is let grow past this many references
MaxBucketLen == 2
\* an insert that never returns is followed for this many loop passes
MaxPasses == 3

Objects == 1..NumObjects
\* the cell sizes a hash is constructed with
CellSizes == {1, 2}
Boxes == [x : 0..MaxX, y : 0..MaxY, width : 0..MaxWidth, height : 0..MaxHeight]

\* ------------------------------------------------------- JavaScript values
None == <<>>
Some(v) == <<v>>
Val(opt) == opt[1]

\* the value `undefined` when it turns up as an element of a result array
UndefinedItem == 0

NullBucket == [isNull |-> TRUE, items |-> <<>>]
Bucket(s) == [isNull |-> FALSE, items |-> s]

\* !this.list[key] is false: the key is present and its value is an array
Truthy(list, key) == key \in DOMAIN list /\ ~list[key].isNull

\* this.list[key] = v
Put(list, key, v) == [k \in DOMAIN list \cup {key} |-> IF k = key THEN v ELSE list[k]]

\* Array.prototype.splice(index, 1) with a 0-based index; a negative index counts
\* from the end, an index past the end removes nothing
splice(s, index) ==
    LET i == IF index < 0 THEN (IF Len(s) + index < 0 THEN 0 ELSE Len(s) + index) ELSE index
    IN  IF i >= Len(s) THEN s
        ELSE [j \in 1..(Len(s) - 1) |-> IF j <= i THEN s[j] ELSE s[j + 1]]

\* Array.prototype.indexOf, 0-based, -1 when absent
indexOf(s, o) ==
    IF \E j \in 1..Len(s) : s[j] = o
    THEN (CHOOSE j \in 1..Len(s) : s[j] = o /\ \A k \in 1..(j - 1) : s[k] # o) - 1
    ELSE -1

\* the values an array holds, and how many times it holds one
Elements(s) == {s[i] : i \in 1..Len(s)}
Occurrences(s, v) == Cardinality({i \in 1..Len(s) : s[i] = v})

\* Array.prototype.pop: the array without its last element
pop(s) == SubSeq(s, 1, Len(s) - 1)

\* the outcome of a mutating call: the bucket store, the object's membership record,
\* and the exception that ended the call ("none" when it returned)
Outcome(l, rec, e) == [list |-> l, rec |-> rec, err |-> e]

\* ------------------------------------------------------------ variant 2
\* the numbers that are not finite, as integers no coordinate of the model comes near;
\* Infinity and -Infinity keep their order against the finite numbers, and every
\* comparison the code makes with NaN is written out where it is made
Infinity == 1000
NaN == 999

\* Math.floor(a / cs) for integers a and cs; a division by 0 gives Infinity,
\* -Infinity or NaN, which Math.floor hands on
floorDiv(a, cs) ==
    IF cs > 0 THEN a \div cs
    ELSE IF cs < 0 THEN (-a) \div (-cs)
    ELSE IF a > 0 THEN Infinity ELSE IF a < 0 THEN -Infinity ELSE NaN

\* Math.floor(a / cs) * cs; the product of 0 and a value that is not finite is NaN
floorTimes(a, cs) == IF cs = 0 THEN NaN ELSE floorDiv(a, cs) * cs

\* _key(x, y): the origin of the cell holding (x, y)
_key(x, y, cs) == <<floorTimes(x, cs), floorTimes(y, cs)>>

\* for (v = from; v < limit; v += cellSize): the values v takes
RECURSIVE steps(_, _, _)
steps(from, limit, cs) ==
    IF from < limit THEN <<from>> \o steps(from + cs, limit, cs) ELSE <<>>

\* one row of the nested loops: y fixed, x running
row2(xs, y) == [i \in 1..Len(xs) |-> <<xs[i], y>>]

RECURSIVE rows2(_, _)
rows2(xs, ys) == IF ys = <<>> THEN <<>> ELSE row2(xs, ys[1]) \o rows2(xs, Tail(ys))

\* the points (x, y) the nested loops of variant 2 visit, in order (y outer, x inner)
points2(AABB, cs) ==
    rows2(steps(AABB.x, AABB.x + AABB.width, cs), steps(AABB.y, AABB.y + AABB.height, cs))

\* while (object.spatialHashes.length) { pop; null the bucket or splice(entry.index, 1) }
RECURSIVE removeLoop2(_, _)
removeLoop2(l, entries) ==
    IF entries = <<>> THEN Outcome(l, Some(<<>>), "none")
    ELSE LET entry == entries[Len(entries)]
             rest == pop(entries)
         IN  IF ~Truthy(l, entry.key)
             THEN Outcome(l, Some(rest), "TypeError")
             ELSE IF Len(l[entry.key].items) = 1
                  THEN removeLoop2(Put(l, entry.key, NullBucket), rest)
                  ELSE removeLoop2(
                           Put(l, entry.key, Bucket(splice(l[entry.key].items, entry.index))),
                           rest)

\* remove(object), variant 2
remove2(l, sh) ==
    IF sh = None THEN Outcome(l, sh, "TypeError") ELSE removeLoop2(l, Val(sh))

\* the body of the nested loops of insert, variant 2, over the points left to visit
RECURSIVE insertLoop2(_, _, _, _, _)
insertLoop2(l, entries, object, pts, cs) ==
    IF pts = <<>> THEN Outcome(l, Some(entries), "none")
    ELSE LET key == _key(pts[1][1], pts[1][2], cs)
             items == IF Truthy(l, key) THEN Append(l[key].items, object) ELSE <<object>>
         IN  insertLoop2(Put(l, key, Bucket(items)),
                         Append(entries, [key |-> key, index |-> Len(items) - 1]),
                         object, Tail(pts), cs)

\* insert(object), variant 2
insert2(l, sh, object, AABB, cs) ==
    LET r == IF sh # None /\ Len(Val(sh)) > 0
             THEN remove2(l, sh)
             ELSE Outcome(l, Some(<<>>), "none")
    IN  IF r.err # "none" THEN r
        ELSE insertLoop2(r.list, Val(r.rec), object, points2(AABB, cs), cs)

\* the buckets query and queryCallback of variant 2 look up, in order
keys2(AABB, cs) ==
    LET pts == points2(AABB, cs) IN [i \in 1..Len(pts) |-> _key(pts[i][1], pts[i][2], cs)]

\* mutant of concatBuckets: results = list.concat(results), each bucket put in front
RECURSIVE concatBucketsFront(_, _)
concatBucketsFront(l, keys) ==
    IF keys = <<>> THEN <<>>
    ELSE concatBucketsFront(l, Tail(keys))
         \o (IF Truthy(l, keys[1]) THEN l[keys[1]].items ELSE <<>>)

\* results = results.concat(list) for every bucket that is there
RECURSIVE concatBuckets(_, _)
concatBuckets(l, keys) ==
    IF keys = <<>> THEN <<>>
    ELSE (IF Truthy(l, keys[1]) THEN l[keys[1]].items ELSE <<>>)
         \o concatBuckets(l, Tail(keys))

\* query(AABB), variant 2
query2(l, AABB, cs) == concatBuckets(l, keys2(AABB, cs))

\* the run of a queryCallback: what it returned (or threw), the objects handed to the
\* callback in order, and the keys it looked up in order
Run(ret, calls, cells, e) == [ret |-> ret, calls |-> calls, cells |-> cells, err |-> e]

\* mutant of callbackLoop: the truthy value is looked at only after the whole bucket
\* has been handed to the callback
callbackLoopLate(items, stop, calls) ==
    [stopped |-> \E i \in 1..Len(items) : items[i] \in stop, calls |-> calls \o items]

\* for (i = 0; i < list.length; i++) if (callback(list[i])) return true;
\* a callback is the set of objects on which it returns a truthy value
RECURSIVE callbackLoop(_, _, _)
callbackLoop(items, stop, calls) ==
    IF items = <<>> THEN [stopped |-> FALSE, calls |-> calls]
    ELSE IF items[1] \in stop THEN [stopped |-> TRUE, calls |-> Append(calls, items[1])]
         ELSE callbackLoop(Tail(items), stop, Append(calls, items[1]))

RECURSIVE callbackCells2(_, _, _, _, _)
callbackCells2(l, keys, stop, calls, cells) ==
    IF keys = <<>> THEN Run(FALSE, calls, cells, "none")
    ELSE IF ~Truthy(l, keys[1])
         THEN callbackCells2(l, Tail(keys), stop, calls, Append(cells, keys[1]))
         ELSE LET b == callbackLoop(l[keys[1]].items, stop, calls)
              IN  IF b.stopped THEN Run(TRUE, b.calls, Append(cells, keys[1]), "none")
                  ELSE callbackCells2(l, Tail(keys), stop, b.calls, Append(cells, keys[1]))

\* queryCallback(AABB, callback), variant 2
queryCallback2(l, AABB, stop, cs) == callbackCells2(l, keys2(AABB, cs), stop, <<>>, <<>>)

\* ------------------------------------------------------------ variant 1
\* this.width and this.height: the constructor assigns neither, so both are undefined
thisWidth == None
thisHeight == None

\* xStart = xStart < 0 ? 0 : xStart; NaN < 0 is false
clampStart(c) == IF c # NaN /\ c < 0 THEN 0 ELSE c

\* xEnd = xEnd >= this.width ? this.width - 1 : xEnd; a comparison with undefined is false
clampEnd(c, dim) == IF dim # None /\ c # NaN /\ c >= Val(dim) THEN Val(dim) - 1 ELSE c

\* the cell range <<xStart, yStart, xEnd, yEnd>> insert, query and queryCallback compute
range1(AABB, cs) ==
    << clampStart(floorDiv(AABB.x, cs)),
       clampStart(floorDiv(AABB.y, cs)),
       clampEnd(floorDiv(AABB.x + AABB.width, cs), thisWidth),
       clampEnd(floorDiv(AABB.y + AABB.height, cs), thisHeight) >>

\* for (v = from; v <= to; v++): the values v takes
RECURSIVE count(_, _)
count(from, to) == IF from <= to THEN <<from>> \o count(from + 1, to) ELSE <<>>

\* the keys x + ' ' + y of the nested loops over a range, in order (y outer, x inner)
keys1(r) == rows2(count(r[1], r[3]), count(r[2], r[4]))

\* {hashes: []}: the membership record insert creates; no field maps is ever assigned
newSpatial == [hashes |-> <<>>, maps |-> None, range |-> None]

\* while (object.spatial.hashes.length) { pop; null the bucket or indexOf + splice }
\* entry.list is taken to be the bucket the entry names
RECURSIVE removeLoop1(_, _, _)
removeLoop1(l, rec, object) ==
    IF rec.hashes = <<>> THEN Outcome(l, Some(rec), "none")
    ELSE LET entry == rec.hashes[Len(rec.hashes)]
             rest == [rec EXCEPT !.hashes = pop(rec.hashes)]
         IN  IF ~Truthy(l, entry.key)
             THEN Outcome(l, Some(rest), "TypeError")
             ELSE IF Len(l[entry.key].items) = 1
                  THEN removeLoop1(Put(l, entry.key, NullBucket), rest, object)
                  ELSE removeLoop1(
                           Put(l, entry.key,
                               Bucket(splice(l[entry.key].items,
                                             indexOf(l[entry.key].items, object)))),
                           rest, object)

\* remove(object), variant 1: object.spatial.hashes of an object without a record throws
remove1(l, sp, object) ==
    IF sp = None THEN Outcome(l, sp, "TypeError") ELSE removeLoop1(l, Val(sp), object)

\* the nested loops of insert, variant 1: the first pass stores the object in its
\* bucket and then reads the undeclared identifier list (line 88), a ReferenceError
insertLoop1(l, rec, object, keys) ==
    IF keys = <<>> THEN Outcome(l, Some(rec), "none")
    ELSE LET key == keys[1]
             items == IF Truthy(l, key) THEN Append(l[key].items, object) ELSE <<object>>
         IN  Outcome(Put(l, key, Bucket(items)), Some(rec), "ReferenceError")

\* insert(object), variant 1
insert1(l, sp, object, AABB, cs) ==
    LET rec == IF sp = None THEN newSpatial ELSE Val(sp)
        r == range1(AABB, cs)
    IN  IF rec.range = Some(r) THEN Outcome(l, Some(rec), "none")
        ELSE IF rec.maps = None
             THEN \* line 71: object.spatial.maps.length with maps undefined
                  Outcome(l, Some(rec), "TypeError")
             ELSE LET rm == IF Len(Val(rec.maps)) > 0
                            THEN remove1(l, Some(rec), object)
                            ELSE Outcome(l, Some(rec), "none")
                      done == IF rm.err # "none" THEN rm
                              ELSE insertLoop1(rm.list, Val(rm.rec), object, keys1(r))
                  IN  IF done.err # "none" THEN done
                      ELSE Outcome(done.list,
                                   Some([Val(done.rec) EXCEPT !.range = Some(r)]), "none")

\* results = results.concat(entry.list): entry is the bucket array, which has no
\* property list, and concat(undefined) appends the value undefined
RECURSIVE concatEntries(_, _)
concatEntries(l, keys) ==
    IF keys = <<>> THEN <<>>
    ELSE (IF Truthy(l, keys[1]) THEN <<UndefinedItem>> ELSE <<>>)
         \o concatEntries(l, Tail(keys))

\* query(AABB), variant 1
query1(l, AABB, cs) == concatEntries(l, keys1(range1(AABB, cs)))

\* the loops of queryCallback, variant 1: entry.list.length of a bucket that is there
\* reads length of undefined, a TypeError
RECURSIVE callbackCells1(_, _, _)
callbackCells1(l, keys, cells) ==
    IF keys = <<>> THEN Run(FALSE, <<>>, cells, "none")
    ELSE IF Truthy(l, keys[1])
         THEN Run(FALSE, <<>>, Append(cells, keys[1]), "TypeError")
         ELSE callbackCells1(l, Tail(keys), Append(cells, keys[1]))

\* queryCallback(AABB, callback), variant 1
queryCallback1(l, AABB, stop, cs) == callbackCells1(l, keys1(range1(AABB, cs)), <<>>)

\* getBuckets(): for (var key in this.list) count++
getBuckets(l) == Cardinality(DOMAIN l)

\* ------------------------------------------------------------------ state
\* variant        which class SpatialHash was constructed
\* cellSize       this.cellSize
\* list           this.list
\* spatial        object.spatial of every object (variant 1)
\* spatialHashes  object.spatialHashes of every object (variant 2)
\* inserted       history: the AABB of the last insert(object) that returned, until
\*                a remove(object) returns
\* call           the last call: its name, the exception it threw ("none" when it
\*                returned) and what it returned: results (query), ret
\*                (queryCallback), count (getBuckets)
\* running        an insert of variant 2 that is inside its loops and has not returned:
\*                the object, its AABB, the loop variables x and y, and the number
\*                of loop passes made (None when no call is under way)
VARIABLES variant, cellSize, list, spatial, spatialHashes, inserted, call, running
vars == <<variant, cellSize, list, spatial, spatialHashes, inserted, call, running>>

Returned(op) ==
    [op |-> op, err |-> "none", results |-> <<>>, ret |-> FALSE, count |-> 0]

emptyList == [k \in {} |-> NullBucket]

\* constructor(cellSize)
Init ==
    /\ variant \in {1, 2}
    /\ cellSize \in CellSizes
    /\ list = emptyList
    /\ spatial = [o \in Objects |-> None]
    /\ spatialHashes = [o \in Objects |-> None]
    /\ inserted = [o \in Objects |-> None]
    /\ call = Returned("constructor")
    /\ running = None

Insert1(object, AABB) ==
    /\ variant = 1
    /\ \E r \in {insert1(list, spatial[object], object, AABB, cellSize)} :
           /\ list' = r.list
           /\ spatial' = [spatial EXCEPT ![object] = r.rec]
           /\ inserted' = IF r.err = "none" THEN [inserted EXCEPT ![object] = Some(AABB)]
                          ELSE inserted
           /\ call' = [Returned("insert") EXCEPT !.err = r.err]
    /\ UNCHANGED <<variant, cellSize, spatialHashes, running>>

Remove1(object) ==
    /\ variant = 1
    /\ \E r \in {remove1(list, spatial[object], object)} :
           /\ list' = r.list
           /\ spatial' = [spatial EXCEPT ![object] = r.rec]
           /\ inserted' = IF r.err = "none" THEN [inserted EXCEPT ![object] = None]
                          ELSE inserted
           /\ call' = [Returned("remove") EXCEPT !.err = r.err]
    /\ UNCHANGED <<variant, cellSize, spatialHashes, running>>

Query1(AABB) ==
    /\ variant = 1
    /\ call' = [Returned("query") EXCEPT !.results = query1(list, AABB, cellSize)]
    /\ UNCHANGED <<variant, cellSize, list, spatial, spatialHashes, inserted, running>>

QueryCallback1(AABB, stop) ==
    /\ variant = 1
    /\ \E r \in {queryCallback1(list, AABB, stop, cellSize)} :
           call' = [Returned("queryCallback") EXCEPT
                       !.err = r.err, !.ret = r.ret]
    /\ UNCHANGED <<variant, cellSize, list, spatial, spatialHashes, inserted, running>>

GetBuckets ==
    /\ variant = 1
    /\ call' = [Returned("getBuckets") EXCEPT !.count = getBuckets(list)]
    /\ UNCHANGED <<variant, cellSize, list, spatial, spatialHashes, inserted, running>>

Insert2(object, AABB) ==
    /\ variant = 2
    /\ running = None
    /\ \E r \in {insert2(list, spatialHashes[object], object, AABB, cellSize)} :
           /\ \A k \in DOMAIN r.list : Len(r.list[k].items) <= MaxBucketLen
           /\ list' = r.list
           /\ spatialHashes' = [spatialHashes EXCEPT ![object] = r.rec]
           /\ inserted' = IF r.err = "none" THEN [inserted EXCEPT ![object] = Some(AABB)]
                          ELSE inserted
           /\ call' = [Returned("insert") EXCEPT !.err = r.err]
    /\ UNCHANGED <<variant, cellSize, spatial, running>>

Remove2(object) ==
    /\ variant = 2
    /\ running = None
    /\ \E r \in {remove2(list, spatialHashes[object])} :
           /\ list' = r.list
           /\ spatialHashes' = [spatialHashes EXCEPT ![object] = r.rec]
           /\ inserted' = IF r.err = "none" THEN [inserted EXCEPT ![object] = None]
                          ELSE inserted
           /\ call' = [Returned("remove") EXCEPT !.err = r.err]
    /\ UNCHANGED <<variant, cellSize, spatial, running>>

\* mutant of Query2: the lookup creates the bucket it does not find
Query2Creating(AABB) ==
    /\ variant = 2
    /\ running = None
    /\ call' = [Returned("query") EXCEPT !.results = query2(list, AABB, cellSize)]
    /\ list' = [k \in DOMAIN list \cup Elements(keys2(AABB, cellSize)) |->
                   IF k \in DOMAIN list THEN list[k] ELSE Bucket(<<>>)]
    /\ UNCHANGED <<variant, cellSize, spatial, spatialHashes, inserted, running>>

Query2(AABB) ==
    /\ variant = 2
    /\ running = None
    /\ call' = [Returned("query") EXCEPT !.results = query2(list, AABB, cellSize)]
    /\ UNCHANGED <<variant, cellSize, list, spatial, spatialHashes, inserted, running>>

QueryCallback2(AABB, stop) ==
    /\ variant = 2
    /\ running = None
    /\ \E r \in {queryCallback2(list, AABB, stop, cellSize)} :
           call' = [Returned("queryCallback") EXCEPT
                       !.err = r.err, !.ret = r.ret]
    /\ UNCHANGED <<variant, cellSize, list, spatial, spatialHashes, inserted, running>>

Next ==
    \/ \E o \in Objects, b \in Boxes : Insert1(o, b)
    \/ \E o \in Objects : Remove1(o)
    \/ \E b \in Boxes : Query1(b)
    \/ \E b \in Boxes, stop \in SUBSET Objects : QueryCallback1(b, stop)
    \/ GetBuckets
    \/ \E o \in Objects, b \in Boxes : Insert2(o, b)
    \/ \E o \in Objects : Remove2(o)
    \/ \E b \in Boxes : Query2(b)
    \/ \E b \in Boxes, stop \in SUBSET Objects : QueryCallback2(b, stop)

Spec == Init /\ [][Next]_vars

\* ------------------------------------ a hash built with a cell size <= 0
\* The constructor stores whatever number it is given. With a cell size that is not
\* positive the loops of variant 2 (y += cellSize, x += cellSize) never reach their
\* limits, so insert is taken there one loop pass at a time; a call that has not
\* returned keeps every other call from starting.
NonPositiveCellSizes == {-1, 0}

\* constructor(cellSize) with cellSize <= 0
InitNonPositive ==
    /\ variant \in {1, 2}
    /\ cellSize \in NonPositiveCellSizes
    /\ list = emptyList
    /\ spatial = [o \in Objects |-> None]
    /\ spatialHashes = [o \in Objects |-> None]
    /\ inserted = [o \in Objects |-> None]
    /\ call = Returned("constructor")
    /\ running = None

\* insert(object), variant 2, from its first line to the first test of the outer loop
InsertBegin2(object, AABB) ==
    /\ variant = 2
    /\ running = None
    /\ \E r \in {IF spatialHashes[object] # None /\ Len(Val(spatialHashes[object])) > 0
                 THEN remove2(list, spatialHashes[object])
                 ELSE Outcome(list, Some(<<>>), "none")} :
           /\ list' = r.list
           /\ spatialHashes' = [spatialHashes EXCEPT ![object] = r.rec]
           /\ IF r.err # "none"
              THEN /\ running' = None
                   /\ call' = [Returned("insert") EXCEPT !.err = r.err]
                   /\ inserted' = inserted
              ELSE IF AABB.y < AABB.y + AABB.height
                   THEN /\ running' = Some([object |-> object, AABB |-> AABB,
                                            x |-> AABB.x, y |-> AABB.y, passes |-> 0])
                        /\ UNCHANGED <<call, inserted>>
                   ELSE /\ running' = None
                        /\ call' = Returned("insert")
                        /\ inserted' = [inserted EXCEPT ![object] = Some(AABB)]
    /\ UNCHANGED <<variant, cellSize, spatial>>

\* one pass of the loops of the insert under way: the test of the inner loop and
\* either its body and x += cellSize, or y += cellSize and the test of the outer loop
InsertPass2 ==
    /\ running # None
    /\ \E p \in {Val(running)} :
           /\ p.passes < MaxPasses
           /\ IF p.x < p.AABB.x + p.AABB.width
              THEN \E r \in {insertLoop2(list, Val(spatialHashes[p.object]), p.object,
                                         <<(<<p.x, p.y>>)>>, cellSize)} :
                       /\ list' = r.list
                       /\ spatialHashes' = [spatialHashes EXCEPT ![p.object] = r.rec]
                       /\ running' = Some([p EXCEPT !.x = p.x + cellSize,
                                                    !.passes = p.passes + 1])
                       /\ UNCHANGED <<call, inserted>>
              ELSE IF p.y + cellSize < p.AABB.y + p.AABB.height
                   THEN /\ running' = Some([p EXCEPT !.x = p.AABB.x,
                                                     !.y = p.y + cellSize,
                                                     !.passes = p.passes + 1])
                        /\ UNCHANGED <<list, spatialHashes, call, inserted>>
                   ELSE /\ running' = None
                        /\ call' = Returned("insert")
                        /\ inserted' = [inserted EXCEPT ![p.object] = Some(p.AABB)]
                        /\ UNCHANGED <<list, spatialHashes>>
    /\ UNCHANGED <<variant, cellSize, spatial>>

NextNonPositive ==
    \/ \E o \in Objects, b \in Boxes : Insert1(o, b)
    \/ \E o \in Objects : Remove1(o)
    \/ \E o \in Objects, b \in Boxes : InsertBegin2(o, b)
    \/ InsertPass2
    \/ \E o \in Objects : Remove2(o)

SpecNonPositive == InitNonPositive /\ [][NextNonPositive]_vars

\* ------------------------------------------------- the claims' vocabulary
\* the hash that was constructed, whichever class it is
queryOf(l, AABB) ==
    IF variant = 1 THEN query1(l, AABB, cellSize) ELSE query2(l, AABB, cellSize)

queryCallbackOf(l, AABB, stop) ==
    IF variant = 1 THEN queryCallback1(l, AABB, stop, cellSize)
    ELSE queryCallback2(l, AABB, stop, cellSize)

recordOf(object) == IF variant = 1 THEN spatial[object] ELSE spatialHashes[object]

insertOf(l, rec, object, AABB) ==
    IF variant = 1 THEN insert1(l, rec, object, AABB, cellSize)
    ELSE insert2(l, rec, object, AABB, cellSize)

removeOf(l, rec, object) ==
    IF variant = 1 THEN remove1(l, rec, object) ELSE remove2(l, rec)

\* the keys query and queryCallback look up for an AABB, in order
keysOf(AABB) ==
    IF variant = 1 THEN keys1(range1(AABB, cellSize)) ELSE keys2(AABB, cellSize)

\* the cell range of an AABB as the specification defines it: inclusive on both ends,
\* floor(min / cellSize) .. floor(max / cellSize) on each axis
cellRange(AABB) ==
    ((AABB.x \div cellSize)..((AABB.x + AABB.width) \div cellSize))
        \X ((AABB.y \div cellSize)..((AABB.y + AABB.height) \div cellSize))

\* the bucket key of a cell: "cx cy" in variant 1, the cell's origin in variant 2
keyOfCell(c) ==
    IF variant = 1 THEN c ELSE _key(c[1] * cellSize, c[2] * cellSize, cellSize)

Indexed(object) == inserted[object] # None

\* the keys an object's membership record names
memberKeys(object) ==
    LET rec == recordOf(object)
    IN  IF rec = None THEN {}
        ELSE IF variant = 1
             THEN {Val(rec).hashes[i].key : i \in 1..Len(Val(rec).hashes)}
             ELSE {Val(rec)[i].key : i \in 1..Len(Val(rec))}

\* ---------------------------------------------------------------- claims

\* C1: Coverage (no false negatives): in every reachable state, for every indexed
\* object O and every query AABB whose inclusive cell range shares a cell with the
\* cell range of O's last-inserted AABB, query(AABB) contains O.
C1_Coverage ==
    \A o \in Objects : \A q \in Boxes :
        (Indexed(o) /\ cellRange(Val(inserted[o])) \cap cellRange(q) # {})
            => o \in Elements(queryOf(list, q))

\* C2: Conservative superset: query(AABB) never returns an object whose current cell
\* range shares no cell with the query's cell range, and never returns a removed
\* object.
C2_ConservativeSuperset ==
    \A q \in Boxes : \A v \in Elements(queryOf(list, q)) :
        /\ v \in Objects
        /\ Indexed(v)
        /\ cellRange(Val(inserted[v])) \cap cellRange(q) # {}

\* C3: Membership invariant: for every indexed object the set of bucket keys in its
\* membership record is exactly the set of keys of the cells in the inclusive range
\* of its last-inserted AABB, and each of those buckets holds the object.
C3_MembershipIsCellRange ==
    \A o \in Objects :
        Indexed(o) =>
            /\ memberKeys(o) = {keyOfCell(c) : c \in cellRange(Val(inserted[o]))}
            /\ \A k \in memberKeys(o) : Truthy(list, k) /\ o \in Elements(list[k].items)

\* C4: Move by re-insert: when an indexed object's AABB changes so that its cell range
\* changes and insert(object) is called again, afterwards every query whose cell range
\* covers only cells of the old range that are not in the new range does not return
\* the object, and every query whose cell range includes a cell of the new range
\* returns it.
C4_MoveByReinsert ==
    [][\A o \in Objects :
          (/\ call'.op = "insert" /\ call'.err = "none"
           /\ Indexed(o) /\ inserted'[o] # None /\ inserted'[o] # inserted[o]
           /\ cellRange(Val(inserted'[o])) # cellRange(Val(inserted[o])))
          => LET old == cellRange(Val(inserted[o]))
                 new == cellRange(Val(inserted'[o]))
             IN  \A q \in Boxes :
                    /\ cellRange(q) \subseteq (old \ new)
                           => o \notin Elements(queryOf(list', q))
                    /\ cellRange(q) \cap new # {}
                           => o \in Elements(queryOf(list', q))]_vars

\* C5: Round-trip: for an object O that is not indexed, insert(O) followed by
\* remove(O) leaves the bucket store exactly as it was before insert(O): the same keys,
\* the same members in each bucket, the same getBuckets().
C5_RoundTrip ==
    \A o \in Objects : \A b \in Boxes :
        ~Indexed(o) =>
            LET i == insertOf(list, recordOf(o), o, b)
                r == removeOf(i.list, i.rec, o)
            IN  (i.err = "none" /\ r.err = "none")
                    => r.list = list /\ getBuckets(r.list) = getBuckets(list)

\* C6: Idempotent re-insert: insert(O) called again with an AABB that maps to the same
\* cell range as the previous insert performs no bucket mutation: the bucket store
\* (keys, members and their order) and O's membership record are left as they were.
C6_IdempotentReinsert ==
    \A o \in Objects : \A b \in Boxes :
        (Indexed(o) /\ cellRange(b) = cellRange(Val(inserted[o])))
            => LET i == insertOf(list, recordOf(o), o, b)
               IN  i.err = "none" /\ i.list = list /\ i.rec = recordOf(o)

\* C7: Duplicate-per-cell: an indexed object O whose AABB spans N cells is returned
\* exactly N times by a query whose cell range covers all N of those cells.
C7_DuplicatePerCell ==
    \A o \in Objects : \A q \in Boxes :
        (Indexed(o) /\ cellRange(Val(inserted[o])) \subseteq cellRange(q))
            => Occurrences(queryOf(list, q), o) = Cardinality(cellRange(Val(inserted[o])))

\* C8: Early exit: when the callback returns a truthy value on some candidate,
\* queryCallback returns true at once: that candidate is the last object the callback
\* is invoked on, and the cell whose bucket holds it is the last cell visited (the
\* cells visited are the traversal's cells up to the first one holding a candidate the
\* callback stops on).
C8_EarlyExit ==
    \A q \in Boxes : \A stop \in SUBSET Objects :
        LET r == queryCallbackOf(list, q, stop)
            keys == keysOf(q)
            k == Len(r.cells)
        IN  (\E i \in 1..Len(r.calls) : r.calls[i] \in stop)
                => /\ r.err = "none" /\ r.ret = TRUE
                   /\ \A i \in 1..Len(r.calls) : r.calls[i] \in stop => i = Len(r.calls)
                   /\ k >= 1 /\ k <= Len(keys) /\ r.cells = SubSeq(keys, 1, k)
                   /\ Truthy(list, keys[k])
                   /\ r.calls[Len(r.calls)] \in Elements(list[keys[k]].items)
                   /\ \A j \in 1..(k - 1) :
                          Truthy(list, keys[j]) => Elements(list[keys[j]].items) \cap stop = {}

\* C8 witness: a queryCallback has returned true, and some query stops early with a
\* bucket that holds objects still ahead in its traversal.
C8_Witness ==
    /\ call.op = "queryCallback" /\ call.ret = TRUE
    /\ \E q \in Boxes : \E stop \in SUBSET Objects :
          LET r == queryCallbackOf(list, q, stop)
              keys == keysOf(q)
          IN  /\ r.ret = TRUE
              /\ \E j \in (Len(r.cells) + 1)..Len(keys) : Truthy(list, keys[j])

\* the number of references to object o stored in the buckets of the cell range of q
refsInRange(q, o) ==
    Cardinality({p \in cellRange(q) \X (1..MaxBucketLen) :
                    /\ Truthy(list, keyOfCell(p[1]))
                    /\ p[2] <= Len(list[keyOfCell(p[1])].items)
                    /\ list[keyOfCell(p[1])].items[p[2]] = o})

\* C9: queryCallback returns false if and only if the callback was invoked on every
\* object reference stored in every bucket of the query's cell range and never
\* returned a truthy value.
C9_ReturnValue ==
    \A q \in Boxes : \A stop \in SUBSET Objects :
        LET r == queryCallbackOf(list, q, stop)
        IN  (r.err = "none" /\ r.ret = FALSE)
                <=> (/\ \A o \in Objects : Occurrences(r.calls, o) = refsInRange(q, o)
                     /\ \A i \in 1..Len(r.calls) : r.calls[i] \notin stop)

\* C10: Queries are read-only: a query or queryCallback call leaves the bucket store
\* and every object's membership record unchanged.
C10_QueriesReadOnly ==
    [][call'.op \in {"query", "queryCallback"}
          => /\ list' = list
             /\ spatial' = spatial
             /\ spatialHashes' = spatialHashes]_vars

\* C10 witness: a query has returned objects from a store that holds buckets.
C10_Witness ==
    /\ call.op = "query" /\ call.results # <<>>
    /\ \E k \in DOMAIN list : Truthy(list, k)

\* the references a store holds under a key: none when the key is absent or null
itemsAt(l, k) == IF Truthy(l, k) THEN l[k].items ELSE <<>>

\* C11: No empty bucket is retained: in every reachable state the bucket store has no
\* key whose bucket has zero members; when remove takes the last member out of a
\* bucket the key is deleted from the store, not left as an empty placeholder.
C11_NoEmptyBucket ==
    \A k \in DOMAIN list : ~list[k].isNull /\ list[k].items # <<>>

\* C12: remove on a never-inserted object: remove(object) on an object that has no
\* membership record makes no change to the bucket store and completes under the one
\* chosen policy (it returns, or it fails with NotIndexed), never with an unrelated
\* crash and never with a partial mutation.
C12_RemoveNeverInserted ==
    \A o \in Objects :
        recordOf(o) = None =>
            LET r == removeOf(list, recordOf(o), o)
            IN  /\ r.list = list
                /\ r.rec = None
                /\ r.err \in {"none", "NotIndexed"}

\* C13: Non-positive cell size is rejected: with cellSize <= 0, insert fails with
\* InvalidConfiguration; it never mutates a bucket, and it is never inside its loops
\* (where it would not terminate).
C13_NonPositiveRejected ==
    cellSize <= 0 =>
        /\ list = emptyList
        /\ running = None
        /\ call.op = "insert" => call.err = "InvalidConfiguration"

\* every object other than o has, under every key, as many references in store l2
\* as in store l1
othersKept(l1, l2, o) ==
    \A k \in DOMAIN l1 \cup DOMAIN l2 : \A p \in Objects \ {o} :
        Occurrences(itemsAt(l2, k), p) = Occurrences(itemsAt(l1, k), p)

\* C15: remove(O) affects only O: in every reachable state remove(O), and the remove
\* inside a re-insert of O, takes exactly O's own reference out of each bucket that
\* O's membership record names and leaves every other object's references in every
\* bucket as they were; a stored position hint never makes it take out a reference to
\* another object.
C15_RemoveAffectsOnlyOwner ==
    \A o \in Objects :
        recordOf(o) # None =>
            LET r == removeOf(list, recordOf(o), o)
            IN  /\ r.err = "none"
                /\ othersKept(list, r.list, o)
                /\ \A k \in memberKeys(o) :
                       Occurrences(itemsAt(r.list, k), o)
                           = Occurrences(itemsAt(list, k), o) - 1
                /\ \A b \in Boxes :
                       othersKept(list, insertOf(list, recordOf(o), o, b).list, o)

\* C16: Buckets are duplicate-free: in every reachable state no bucket holds the same
\* object reference more than once.
C16_DuplicateFree ==
    \A k \in DOMAIN list : \A o \in Objects : Occurrences(list[k].items, o) <= 1

\* C17: No partial failure: an insert or remove call that fails leaves the bucket
\* store and every membership record exactly as they were before the call; in
\* particular a failed first insert of a fresh object leaves no membership record
\* behind.
C17_NoPartialFailure ==
    [][(call'.op \in {"insert", "remove"} /\ call'.err # "none")
          => /\ list' = list
             /\ spatial' = spatial
             /\ spatialHashes' = spatialHashes]_vars

\* C18: Cell-range edge policy: an insert that returns has placed the object in every
\* cell of the range that is inclusive on both ends, floor(min / cellSize) to
\* floor(max / cellSize) on each axis: an AABB of width 0 or height 0 occupies one cell
\* on that axis, and an AABB whose far edge lies in the next cell occupies both cells.
C18_InclusiveEdgePolicy ==
    \A o \in Objects : \A b \in Boxes :
        LET i == insertOf(list, recordOf(o), o, b)
        IN  i.err = "none"
                => \A c \in cellRange(b) : o \in Elements(itemsAt(i.list, keyOfCell(c)))

\* AABBs with coordinates on both sides of 0
SignedBoxes ==
    [x : (-MaxWidth)..MaxX, y : (-MaxHeight)..MaxY, width : 0..MaxWidth, height : 0..MaxHeight]

\* the keys a membership record names
recordKeys(rec) ==
    IF rec = None THEN {}
    ELSE IF variant = 1
         THEN {Val(rec).hashes[i].key : i \in 1..Len(Val(rec).hashes)}
         ELSE {Val(rec)[i].key : i \in 1..Len(Val(rec))}

\* C19: Insert and query use the same range rule: for every AABB, negative
\* coordinates and clamping included, the cells an insert that returns has written for
\* an object with that AABB are the cells query and queryCallback read for the same
\* AABB, so the object is found by a query and by a queryCallback with its own AABB.
C19_SameRangeRule ==
    \A o \in Objects : \A b \in SignedBoxes :
        LET i == insertOf(list, recordOf(o), o, b)
        IN  i.err = "none"
                => /\ recordKeys(i.rec) = Elements(keysOf(b))
                   /\ o \in Elements(queryOf(i.list, b))
                   /\ queryCallbackOf(i.list, b, {o}).ret = TRUE

\* a sequence of keys in row-major order: by y first, by x within one y
rowMajor(cells) ==
    \A i, j \in 1..Len(cells) :
        i < j => \/ cells[i][2] < cells[j][2]
                 \/ cells[i][2] = cells[j][2] /\ cells[i][1] < cells[j][1]

\* C20: query and queryCallback perform the same traversal: in every reachable state
\* and for every AABB, the sequence of objects queryCallback passes to a callback that
\* never stops is the sequence query returns for that AABB, and the cells are visited
\* in row-major order (y outer loop, x inner loop).
C20_SameTraversal ==
    \A q \in Boxes :
        LET r == queryCallbackOf(list, q, {})
        IN  /\ r.err = "none" /\ r.ret = FALSE
            /\ r.calls = queryOf(list, q)
            /\ rowMajor(r.cells)

\* C20 witness: a queryCallback has run to its end, and some AABB's traversal goes
\* over two rows and meets buckets of different contents in two of its cells.
C20_Witness ==
    /\ call.op = "queryCallback" /\ call.err = "none" /\ call.ret = FALSE
    /\ \E q \in Boxes :
          LET r == queryCallbackOf(list, q, {})
          IN  /\ \E i, j \in 1..Len(r.cells) :
                     /\ r.cells[i][2] # r.cells[j][2]
                     /\ itemsAt(list, r.cells[i]) # <<>>
                     /\ itemsAt(list, r.cells[j]) # <<>>
                     /\ itemsAt(list, r.cells[i]) # itemsAt(list, r.cells[j])
              /\ Len(r.calls) >= 2

====
